---------------------------- MODULE Spec2Model ----------------------------
(***************************************************************************)
(* A model of src/brc.py, the publish configuration of a blog post         *)
(* converter.  The file is a Python module made of three assignment        *)
(* statements whose right-hand sides are literals (a string, and two       *)
(* nested dict displays).  Loading the configuration is the execution of   *)
(* these statements, top to bottom, into the module namespace; a consumer  *)
(* then reads values out of the namespace by name and subscript.           *)
(*                                                                         *)
(* The model keeps the two levels apart: the text of the file is an        *)
(* expression tree (Str, Num, TrueConst, List, Tuple, Dict nodes), and     *)
(* the loaded record is made of tagged Python values (str, int, bool,      *)
(* list, tuple, dict).  Eval is the conversion between the two.  Integers  *)
(* are kept as CPython keeps them, a little-endian sequence of 15-bit      *)
(* digits, because the blog identifier does not fit a 32-bit integer.      *)
(***************************************************************************)
EXTENDS Integers, Sequences, FiniteSets, TLC

VARIABLES
    variant,    \* which variant of the file is being loaded
    pc,         \* index of the next statement of the module to execute
    globals,    \* the module namespace: bound name -> value
    reads       \* the consumer's reads so far: <<[path, result], ...>>

vars == <<variant, pc, globals, reads>>

\* The number of reads the consumer makes in a behaviour of the model.
MaxReads == 2

----------------------------------------------------------------------------
(* Python values *)

PyStr(s)    == [type |-> "str",   val |-> s]
PyInt(ds)   == [type |-> "int",   val |-> ds]
PyBool(b)   == [type |-> "bool",  val |-> b]
PyList(xs)  == [type |-> "list",  val |-> xs]
PyTuple(xs) == [type |-> "tuple", val |-> xs]
PyDict(f)   == [type |-> "dict",  val |-> f]

\* What a lookup of a name or key that is not there reports.
Absent(k)   == [type |-> "absent", val |-> k]

----------------------------------------------------------------------------
(* Arbitrary-precision integers: little-endian digits in base 2^15, no     *)
(* leading zero digit, zero is the empty sequence.                         *)

PyLongBase == 2^15

RECURSIVE MulAddDigits(_, _, _)
\* ds * m + carry
MulAddDigits(ds, m, carry) ==
    IF ds = <<>>
    THEN IF carry = 0 THEN <<>>
         ELSE <<carry % PyLongBase>> \o MulAddDigits(<<>>, m, carry \div PyLongBase)
    ELSE LET t == Head(ds) * m + carry
         IN  <<t % PyLongBase>> \o MulAddDigits(Tail(ds), m, t \div PyLongBase)

RECURSIVE ParseDecimalFrom(_, _)
ParseDecimalFrom(text, acc) ==
    IF text = <<>> THEN acc
    ELSE ParseDecimalFrom(Tail(text), MulAddDigits(acc, 10, Head(text)))

\* ParseDecimal as a loader with a machine-word accumulator would compute
\* it: only the two low digits (30 bits) of the value are kept.
ParseDecimalWrapping(text) ==
    LET ds == ParseDecimalFrom(text, <<>>)
    IN  IF Len(ds) <= 2 THEN ds ELSE SubSeq(ds, 1, 2)

\* The value of a decimal integer literal, given as its sequence of
\* decimal digits, most significant first.
ParseDecimal(text) == ParseDecimalFrom(text, <<>>)

----------------------------------------------------------------------------
(* The text of the file: expression nodes.  A Dict node holds its          *)
(* key: value items in the order they are written.                         *)

Str(s)      == [node |-> "Str",   arg |-> s]
Num(text)   == [node |-> "Num",   arg |-> text]
TrueConst   == [node |-> "True",  arg |-> <<>>]
List(elts)  == [node |-> "List",  arg |-> elts]
Tuple(elts) == [node |-> "Tuple", arg |-> elts]
Dict(items) == [node |-> "Dict",  arg |-> items]

\* service = 'blogger'
ServiceExpr == Str("blogger")

\* BlogLiteral with its last two digits transposed.
BlogLiteralTransposed == <<6,4,2,5,0,5,4,3,4,2,4,8,4,9,3,6,4,2,0>>

\* The digits of the literal 6425054342484936402.
BlogLiteral == <<6,4,2,5,0,5,4,3,4,2,4,8,4,9,3,6,4,0,2>>

\* service_options = { 'blog': 6425054342484936402, }
ServiceOptionsExpr == Dict(<< <<Str("blog"), Num(BlogLiteral)>> >>)

\* ExtensionsExpr with 'codehilite' left out of the enabled extensions.
ExtensionsExprNoCodehilite ==
    List(<<Str("footnotes"), Str("tables"), Str("toc")>>)

\* 'extensions': ['codehilite', 'footnotes', 'tables', 'toc'],
ExtensionsExpr ==
    List(<<Str("codehilite"), Str("footnotes"), Str("tables"), Str("toc")>>)

\* ExtensionConfigsExpr with the setting written as the constant True
\* instead of the string 'True'.
ExtensionConfigsExprBool ==
    Dict(<< <<Str("codehilite"),
              List(<< Tuple(<<Str("noclasses"), TrueConst>>) >>)>> >>)

\* 'extension_configs' : { 'codehilite' : [ ('noclasses', 'True') ] }
ExtensionConfigsExpr ==
    Dict(<< <<Str("codehilite"),
              List(<< Tuple(<<Str("noclasses"), Str("True")>>) >>)>> >>)

\* 'config': { 'extensions': ..., 'extension_configs' : ... },
ConfigExpr ==
    Dict(<< <<Str("extensions"), ExtensionsExpr>>,
            <<Str("extension_configs"), ExtensionConfigsExpr>> >>)

\* 'options': { 'embed_images': True, 'config': ... },
OptionsExpr ==
    Dict(<< <<Str("embed_images"), TrueConst>>,
            <<Str("config"), ConfigExpr>> >>)

\* The options block of the other variant of the file, which the
\* specification describes as the same file without 'embed_images'.
OptionsExprNoEmbedImages ==
    Dict(<< <<Str("config"), ConfigExpr>> >>)

\* HandlersExpr with a second handler entry beside 'Markdown'.
HandlersExprTwoHandlers(v) ==
    Dict(<< <<Str("Markdown"),
              Dict(<< <<Str("options"),
                        IF v = "embed_images" THEN OptionsExpr
                        ELSE OptionsExprNoEmbedImages>> >>)>>,
            <<Str("HTML"), Dict(<< <<Str("options"), Dict(<<>>)>> >>)>> >>)

\* handlers = { 'Markdown': { 'options': ... }, }
HandlersExpr(v) ==
    Dict(<< <<Str("Markdown"),
              Dict(<< <<Str("options"),
                        IF v = "embed_images" THEN OptionsExpr
                        ELSE OptionsExprNoEmbedImages>> >>)>> >>)

\* Program followed by a later statement that binds service again.
ProgramRebinding(v) ==
    << [target |-> "service",         value |-> ServiceExpr],
       [target |-> "service_options", value |-> ServiceOptionsExpr],
       [target |-> "handlers",        value |-> HandlersExpr(v)],
       [target |-> "service",         value |-> Str("wordpress")] >>

\* The statements of the module, in the order they are written.
Program(v) ==
    << [target |-> "service",         value |-> ServiceExpr],
       [target |-> "service_options", value |-> ServiceOptionsExpr],
       [target |-> "handlers",        value |-> HandlersExpr(v)] >>

\* src/brc.py is the variant with 'embed_images'.
Variants == {"embed_images", "no_embed_images"}

----------------------------------------------------------------------------
(* Evaluation of a literal expression to a value.  A dict display is       *)
(* evaluated item by item, left to right; a later item with the same key   *)
(* replaces the earlier value.  A dict is a function from key values to    *)
(* values.                                                                 *)

RECURSIVE Eval(_)
RECURSIVE EvalItems(_, _)

\* EvalItems as a loader that fills in a default would compute it: a dict
\* with a 'config' key and no 'embed_images' key gets 'embed_images': False.
EvalItemsDefaulting(items, acc) ==
    IF items = <<>>
    THEN IF /\ PyStr("config") \in DOMAIN acc
            /\ PyStr("embed_images") \notin DOMAIN acc
         THEN (PyStr("embed_images") :> PyBool(FALSE)) @@ acc
         ELSE acc
    ELSE LET k == Eval(Head(items)[1])
             v == Eval(Head(items)[2])
         IN  EvalItems(Tail(items), (k :> v) @@ acc)

EvalItems(items, acc) ==
    IF items = <<>> THEN acc
    ELSE LET k == Eval(Head(items)[1])
             v == Eval(Head(items)[2])
         IN  EvalItems(Tail(items), (k :> v) @@ acc)

Eval(e) ==
    CASE e.node = "Str"   -> PyStr(e.arg)
      [] e.node = "Num"   -> PyInt(ParseDecimal(e.arg))
      [] e.node = "True"  -> PyBool(TRUE)
      [] e.node = "List"  -> PyList([i \in 1..Len(e.arg) |-> Eval(e.arg[i])])
      [] e.node = "Tuple" -> PyTuple([i \in 1..Len(e.arg) |-> Eval(e.arg[i])])
      [] e.node = "Dict"  -> PyDict(EvalItems(e.arg, <<>>))

----------------------------------------------------------------------------
(* Reads.  The consumer reaches a value by a path: a global name, then     *)
(* dict keys and list or tuple indexes (from 0).  The module namespace is  *)
(* itself a dict.                                                          *)

Key(k)   == [type |-> "key",   val |-> k]
K(s)     == Key(PyStr(s))
Index(i) == [type |-> "index", val |-> i]

\* Keys the consumer asks for whether or not they are there.
ProbeKeys == {PyStr("embed_images")}

\* What subscripting raises instead of returning a value.
Raised(exc) == [type |-> "error", val |-> exc]

Subscript(v, step) ==
    CASE v.type = "dict" /\ step.type = "key" ->
            IF step.val \in DOMAIN v.val THEN v.val[step.val]
            ELSE Absent(step.val)
      [] v.type \in {"list", "tuple"} /\ step.type = "index" ->
            IF step.val < Len(v.val) THEN v.val[step.val + 1]
            ELSE Raised("IndexError")
      [] v.type \in {"absent", "error"} -> v
      [] OTHER -> Raised("TypeError")

Steps(v) ==
    CASE v.type = "dict" -> {Key(k) : k \in (DOMAIN v.val) \cup ProbeKeys}
      [] v.type \in {"list", "tuple"} -> {Index(i) : i \in 0..(Len(v.val) - 1)}
      [] OTHER -> {}

RECURSIVE Lookup(_, _)
Lookup(v, path) ==
    IF path = <<>> THEN v ELSE Lookup(Subscript(v, Head(path)), Tail(path))

RECURSIVE PathsFrom(_)
PathsFrom(v) ==
    {<<>>} \cup
    UNION {{<<s>> \o p : p \in PathsFrom(Subscript(v, s))} : s \in Steps(v)}

\* The module namespace as the dict it is: its keys are the bound names.
Namespace ==
    PyDict([k \in {PyStr(n) : n \in DOMAIN globals} |-> globals[k.val]])

\* Every path the consumer can read in the loaded namespace.
ReadPaths == PathsFrom(Namespace) \ {<<>>}

----------------------------------------------------------------------------
(* The state machine *)

Loaded == pc > Len(Program(variant))

Init ==
    /\ variant \in Variants
    /\ pc = 1
    /\ globals = <<>>
    /\ reads = <<>>

\* Execute the next assignment statement: bind its target in the module
\* namespace to the value of its right-hand side.
ExecStatement ==
    /\ ~Loaded
    /\ LET s == Program(variant)[pc]
       IN  globals' = (s.target :> Eval(s.value)) @@ globals
    /\ pc' = pc + 1
    /\ UNCHANGED <<variant, reads>>

\* The consumer reads the value at path p.
Read(p) ==
    /\ Loaded
    /\ Len(reads) < MaxReads
    /\ reads' = Append(reads, [path |-> p, result |-> Lookup(Namespace, p)])
    /\ UNCHANGED <<variant, pc, globals>>

Next ==
    \/ ExecStatement
    \/ \E p \in ReadPaths : Read(p)

Spec == Init /\ [][Next]_vars

----------------------------------------------------------------------------
(* The fields of the configuration record, by the names the file gives     *)
(* them.  Before a name is bound its lookup is Absent.                     *)

service         == Lookup(Namespace, <<K("service")>>)
service_options == Lookup(Namespace, <<K("service_options")>>)
handlers        == Lookup(Namespace, <<K("handlers")>>)

BlogPath       == <<K("service_options"), K("blog")>>
OptionsPath    == <<K("handlers"), K("Markdown"), K("options")>>
EmbedPath      == OptionsPath \o <<K("embed_images")>>
ConfigPath     == OptionsPath \o <<K("config")>>
ExtensionsPath == ConfigPath \o <<K("extensions")>>
ExtConfigsPath == ConfigPath \o <<K("extension_configs")>>

blog              == Lookup(Namespace, BlogPath)
options           == Lookup(Namespace, OptionsPath)
embed_images      == Lookup(Namespace, EmbedPath)
config            == Lookup(Namespace, ConfigPath)
extensions        == Lookup(Namespace, ExtensionsPath)
extension_configs == Lookup(Namespace, ExtConfigsPath)

\* The consumer has read path p, and every read of it reported r.
HasRead(p)     == \E i \in 1..Len(reads) : reads[i].path = p
Reported(p, r) == \A i \in 1..Len(reads) : reads[i].path = p => reads[i].result = r

----------------------------------------------------------------------------
(* Arithmetic on integer values, used to state what an integer is.         *)

RECURSIVE Normalize(_)
\* Drop the leading (most significant) zero digits.
Normalize(ds) ==
    IF ds # <<>> /\ ds[Len(ds)] = 0 THEN Normalize(SubSeq(ds, 1, Len(ds) - 1))
    ELSE ds

RECURSIVE DivSmallFrom(_, _, _, _, _)
DivSmallFrom(ds, d, i, rem, acc) ==
    IF i = 0 THEN [q |-> Normalize(acc), r |-> rem]
    ELSE LET t == rem * PyLongBase + ds[i]
         IN  DivSmallFrom(ds, d, i - 1, t % d, <<t \div d>> \o acc)

\* Quotient and remainder of ds by a small divisor d.
DivSmall(ds, d) == DivSmallFrom(ds, d, Len(ds), 0, <<>>)

RECURSIVE ToDecimalFrom(_, _)
ToDecimalFrom(ds, acc) ==
    IF ds = <<>> THEN acc
    ELSE LET qr == DivSmall(ds, 10)
         IN  ToDecimalFrom(qr.q, <<qr.r>> \o acc)

\* The decimal digits of an integer, most significant first.
IntToDecimal(ds) == IF ds = <<>> THEN <<0>> ELSE ToDecimalFrom(ds, <<>>)

RECURSIVE StripBits(_)
StripBits(bits) ==
    IF bits # <<>> /\ bits[Len(bits)] = 0
    THEN StripBits(SubSeq(bits, 1, Len(bits) - 1))
    ELSE bits

RECURSIVE DigitsToBits(_)
DigitsToBits(ds) ==
    IF ds = <<>> THEN <<>>
    ELSE [i \in 1..15 |-> (Head(ds) \div 2^(i - 1)) % 2] \o DigitsToBits(Tail(ds))

\* The binary digits of an integer, least significant first.
ToBits(ds) == StripBits(DigitsToBits(ds))

BitLength(ds) == Len(ToBits(ds))

RECURSIVE BitsValue(_)
\* The value of at most 15 bits.
BitsValue(bits) ==
    IF bits = <<>> THEN 0 ELSE Head(bits) + 2 * BitsValue(Tail(bits))

RECURSIVE BitsToDigits(_)
BitsToDigits(bits) ==
    IF bits = <<>> THEN <<>>
    ELSE IF Len(bits) <= 15 THEN <<BitsValue(bits)>>
    ELSE <<BitsValue(SubSeq(bits, 1, 15))>>
         \o BitsToDigits(SubSeq(bits, 16, Len(bits)))

FromBits(bits) == Normalize(BitsToDigits(bits))

\* 2^k
Pow2(k) == FromBits([i \in 1..(k + 1) |-> IF i = k + 1 THEN 1 ELSE 0])

RECURSIVE LessFrom(_, _, _)
LessFrom(a, b, i) ==
    IF i = 0 THEN FALSE
    ELSE IF a[i] # b[i] THEN a[i] < b[i]
    ELSE LessFrom(a, b, i - 1)

\* a < b, for non-negative integers
Less(a, b) ==
    \/ Len(a) < Len(b)
    \/ Len(a) = Len(b) /\ LessFrom(a, b, Len(a))

\* The value kept by an unsigned integer of w bits: the value modulo 2^w.
NarrowTo(ds, w) ==
    LET bits == ToBits(ds)
    IN  FromBits(IF Len(bits) <= w THEN bits ELSE SubSeq(bits, 1, w))

RECURSIVE IncrementBits(_)
IncrementBits(bits) ==
    IF bits = <<>> THEN <<1>>
    ELSE IF Head(bits) = 0 THEN <<1>> \o Tail(bits)
    ELSE <<0>> \o IncrementBits(Tail(bits))

\* The value kept by a binary floating-point number with a mantissa of m
\* bits: the nearest multiple of 2^(length - m), ties to even.
RoundToMantissa(ds, m) ==
    LET bits == ToBits(ds)
        n    == Len(bits)
        s    == n - m
    IN  IF s <= 0 THEN ds
        ELSE LET low  == SubSeq(bits, 1, s)
                 high == SubSeq(bits, s + 1, n)
                 up   == /\ low[s] = 1
                         /\ \/ \E i \in 1..(s - 1) : low[i] = 1
                            \/ high[1] = 1
             IN  FromBits([i \in 1..s |-> 0]
                          \o (IF up THEN IncrementBits(high) ELSE high))

----------------------------------------------------------------------------
(* Properties *)

\* The three names are bound: the record has been created.
Created == {"service", "service_options", "handlers"} \subseteq DOMAIN globals

ExpectedExtensions ==
    PyList(<<PyStr("codehilite"), PyStr("footnotes"), PyStr("tables"), PyStr("toc")>>)

ExpectedBlogDecimal == <<6,4,2,5,0,5,4,3,4,2,4,8,4,9,3,6,4,0,2>>

\* C1: once the variant of the file with embed_images is loaded, service is
\* the string "blogger", service_options.blog is the integer
\* 6425054342484936402, handlers["Markdown"].options.embed_images is True and
\* ...config.extensions is the list ["codehilite", "footnotes", "tables",
\* "toc"] in that order; and every read of one of them reports that value.
C1_LoadedValues ==
    (Loaded /\ variant = "embed_images") =>
        /\ service = PyStr("blogger")
        /\ blog.type = "int"
        /\ IntToDecimal(blog.val) = ExpectedBlogDecimal
        /\ embed_images = PyBool(TRUE)
        /\ extensions = ExpectedExtensions
        /\ Reported(<<K("service")>>, PyStr("blogger"))
        /\ Reported(BlogPath, blog)
        /\ Reported(EmbedPath, PyBool(TRUE))
        /\ Reported(ExtensionsPath, ExpectedExtensions)

C1_Witness ==
    /\ Loaded
    /\ variant = "embed_images"
    /\ HasRead(BlogPath)
    /\ HasRead(ExtensionsPath)

\* C2: once the record has been created, no step changes service,
\* service_options or handlers, or any value nested in them; reads leave the
\* namespace as it is.
C2_ImmutableAfterLoad == [][Created => globals' = globals]_vars

C2_Witness ==
    /\ Created
    /\ Len(reads) >= 2
    /\ HasRead(<<K("handlers")>>)

\* C5: once the variant of the file without embed_images is loaded, the
\* options block has no embed_images key, its lookup is reported as absent,
\* which is neither False nor True, and no default stands in for it.
C5_AbsentStaysAbsent ==
    (Loaded /\ variant = "no_embed_images") =>
        /\ options.type = "dict"
        /\ PyStr("embed_images") \notin DOMAIN options.val
        /\ embed_images = Absent(PyStr("embed_images"))
        /\ embed_images # PyBool(FALSE)
        /\ embed_images # PyBool(TRUE)
        /\ Reported(EmbedPath, Absent(PyStr("embed_images")))
        /\ Reported(OptionsPath, Eval(OptionsExprNoEmbedImages))

C5_Witness ==
    /\ Loaded
    /\ variant = "no_embed_images"
    /\ HasRead(EmbedPath)
    /\ HasRead(OptionsPath)

\* The schema of the configuration record.
IsSeqOf(v, t) == \A i \in 1..Len(v.val) : v.val[i].type = t

IsStringPair(p) ==
    /\ p.type \in {"tuple", "list"}
    /\ Len(p.val) = 2
    /\ IsSeqOf(p, "str")

IsExtensionSettings(v) ==
    /\ v.type = "list"
    /\ \A i \in 1..Len(v.val) : IsStringPair(v.val[i])

IsConfig(c) ==
    /\ c.type = "dict"
    /\ {PyStr("extensions"), PyStr("extension_configs")} \subseteq DOMAIN c.val
    /\ c.val[PyStr("extensions")].type = "list"
    /\ IsSeqOf(c.val[PyStr("extensions")], "str")
    /\ LET ec == c.val[PyStr("extension_configs")]
       IN  /\ ec.type = "dict"
           /\ \A name \in DOMAIN ec.val :
                 name.type = "str" /\ IsExtensionSettings(ec.val[name])

IsOptions(o) ==
    /\ o.type = "dict"
    /\ PyStr("embed_images") \in DOMAIN o.val =>
           o.val[PyStr("embed_images")].type = "bool"
    /\ PyStr("config") \in DOMAIN o.val
    /\ IsConfig(o.val[PyStr("config")])

IsHandlers(h) ==
    /\ h.type = "dict"
    /\ \A format \in DOMAIN h.val :
          /\ format.type = "str"
          /\ h.val[format].type = "dict"
          /\ PyStr("options") \in DOMAIN h.val[format].val
          /\ IsOptions(h.val[format].val[PyStr("options")])

IsServiceOptions(so) ==
    /\ so.type = "dict"
    /\ PyStr("blog") \in DOMAIN so.val
    /\ so.val[PyStr("blog")].type = "int"

\* C6: the loaded configuration conforms to the schema: service is a string,
\* service_options a mapping whose blog entry is an integer, handlers a
\* mapping from format names to records with an options record, which holds
\* an optional boolean embed_images and a config record with extensions, a
\* list of strings, and extension_configs, a mapping from extension names to
\* lists of (key, value) pairs of strings; the codehilite setting noclasses
\* is the string 'True', not the boolean.
C6_ConformsToSchema ==
    Loaded =>
        /\ service.type = "str"
        /\ IsServiceOptions(service_options)
        /\ IsHandlers(handlers)
        /\ Lookup(extension_configs, <<K("codehilite"), Index(0)>>)
              = PyTuple(<<PyStr("noclasses"), PyStr("True")>>)
        /\ Lookup(extension_configs, <<K("codehilite"), Index(0), Index(1)>>)
              # PyBool(TRUE)

C6_Witness ==
    /\ Loaded
    /\ variant = "embed_images"
    /\ HasRead(ExtConfigsPath \o <<K("codehilite"), Index(0), Index(1)>>)

\* C7: the record has exactly the three top-level fields service,
\* service_options and handlers (never another one, also while loading),
\* and handlers has exactly one entry, keyed "Markdown", which holds exactly
\* one entry, its options block.
C7_ThreeFieldsOneHandler ==
    /\ DOMAIN globals \subseteq {"service", "service_options", "handlers"}
    /\ Loaded =>
          /\ DOMAIN globals = {"service", "service_options", "handlers"}
          /\ Cardinality(DOMAIN globals) = 3
          /\ handlers.type = "dict"
          /\ DOMAIN handlers.val = {PyStr("Markdown")}
          /\ handlers.val[PyStr("Markdown")].type = "dict"
          /\ DOMAIN handlers.val[PyStr("Markdown")].val = {PyStr("options")}
          /\ options.type = "dict"

C7_Witness ==
    /\ Loaded
    /\ variant = "embed_images"
    /\ HasRead(<<K("handlers"), K("Markdown")>>)

\* C8: every extension that extension_configs gives settings for is in the
\* extensions list, and no name is in the extensions list twice.
C8_ConfiguredExtensionsEnabled ==
    Loaded =>
        /\ \A name \in DOMAIN extension_configs.val :
              \E i \in 1..Len(extensions.val) : extensions.val[i] = name
        /\ \A i, j \in 1..Len(extensions.val) :
              extensions.val[i] = extensions.val[j] => i = j

C8_Witness ==
    /\ Loaded
    /\ variant = "embed_images"
    /\ DOMAIN extension_configs.val # {}
    /\ Len(extensions.val) > 1
    /\ HasRead(ExtConfigsPath \o <<K("codehilite")>>)

\* C9: service_options.blog is positive, less than 2^63 and greater than
\* 2^53: it is 63 bits long, so an unsigned representation of 16, 32 or 62
\* bits loses it while one of 63 bits keeps it; narrowed to 32 bits it becomes
\* 308627154, and rounded to a 53-bit mantissa 6425054342484936704, both of
\* them other values.
C9_BlogNeeds63Bits ==
    Loaded =>
        /\ blog.type = "int"
        /\ Less(<<>>, blog.val)
        /\ Less(blog.val, Pow2(63))
        /\ Less(Pow2(53), blog.val)
        /\ BitLength(blog.val) = 63
        /\ \A w \in {16, 32, 62} : NarrowTo(blog.val, w) # blog.val
        /\ NarrowTo(blog.val, 63) = blog.val
        /\ IntToDecimal(NarrowTo(blog.val, 32)) = <<3,0,8,6,2,7,1,5,4>>
        /\ RoundToMantissa(blog.val, 53) # blog.val
        /\ IntToDecimal(RoundToMantissa(blog.val, 53))
              = <<6,4,2,5,0,5,4,3,4,2,4,8,4,9,3,6,7,0,4>>

C9_Witness ==
    /\ Loaded
    /\ HasRead(BlogPath)
    /\ \E i \in 1..Len(reads) :
          reads[i].path = BlogPath /\ BitLength(reads[i].result.val) > 53

=============================================================================
